---- MODULE Spec2Model ----
(***************************************************************************)
(* redpoule::ThreadPool (src/include/redpoule.hpp): a fixed set of worker  *)
(* threads polling one mutex-protected task queue, a completion barrier    *)
(* wait() on a condition variable, parallel_for and the destructor.        *)
(*                                                                         *)
(* Every access to _task_queue and _busy in the source is made inside a    *)
(* critical section of _task_queue_mutex and no critical section blocks,   *)
(* so each critical section is one atomic action here.  The code outside   *)
(* the mutex (the test of _running, the call task(), the destructor's      *)
(* store to _running and its joins) is a step of its own.                  *)
(*                                                                         *)
(* _running is a plain bool that the destructor writes and the workers     *)
(* read without synchronisation.  Every turn of the worker loop locks the  *)
(* mutex, so the flag is loaded again at each loop test; a load that still *)
(* sees the old value is the interleaving in which the test came first.    *)
(* The test is therefore one step that reads the current value.            *)
(***************************************************************************)
EXTENDS Integers, Sequences, FiniteSets

\* Bounds of the model.
MaxThreads == 2       \* largest n_threads handed to the constructor
MaxTasks == 2         \* total number of tasks pushed in one run
MaxIdx == 2           \* parallel_for ranges are drawn from 0..MaxIdx

\* The caller threads: "main" constructs the pool, uses all of its interface
\* and destroys it; "aux" pushes tasks and waits.
Callers == {"main", "aux"}
Threads == 0 .. (MaxThreads - 1)

\* A worker thread that calls back into the pool from inside a task is a
\* caller too, under the name of its thread.
ThreadName == <<"thread0", "thread1", "thread2", "thread3">>
Self(w) == ThreadName[w + 1]
AllCallers == Callers \cup {Self(w) : w \in Threads}

VARIABLES
  _running,      \* bool _running
  _n_threads,    \* int _n_threads
  _busy,         \* std::vector<bool> _busy
  _task_queue,   \* std::queue<std::function<void()>>, as task ids
  notified,      \* waiters of cv that a notify_all has woken
  wpc,           \* position of each worker in infinite_loop
  task,          \* infinite_loop's local `task` (0: none)
  cpc,           \* position of each caller thread
  call,          \* arguments and locals of the caller's current call
  joined,        \* number of workers the destructor has joined
  tasks,         \* log of every task pushed: who pushed it, its block, who ran it
  foo            \* the array the blocks of parallel_for increment

vars == <<_running, _n_threads, _busy, _task_queue, notified, wpc, task,
          cpc, call, joined, tasks, foo>>

\* sleeps: 0 the call has not blocked, 1 it has blocked in cv.wait, 2 a wake-up
\* found the predicate false and the call blocked again
NoCall == [op |-> "none", start |-> 0, end |-> 0, t |-> 0, ids |-> <<>>, sleeps |-> 0]
ZeroArray == [i \in 0 .. (MaxIdx - 1) |-> 0]

\* thread ids of the workers the constructor started
Started == {w \in Threads : w < _n_threads}

----------------------------------------------------------------------------
(* Pure parts of the code *)

\* parallel_for: size_t block_start = t * block_size / get_num_threads()
BlockStart(t, start, end, n) == (t * (end - start)) \div n

\* a block end computed by dividing before multiplying, without the pin
BlockEndDivFirst(t, start, end, n) == (t + 1) * ((end - start) \div n)

\* parallel_for: size_t block_end = (t + 1) == n ? block_size : (t + 1) * block_size / n
BlockEnd(t, start, end, n) ==
  IF t + 1 = n THEN end - start ELSE ((t + 1) * (end - start)) \div n

\* an early return that lets start == end through
EmptyRangeStrict(start, end) == start > end

\* parallel_for: if (start >= end) return;
EmptyRange(start, end) == start >= end

\* a push at the front of the queue
EnqueueFront(q, id) == <<id>> \o q

\* push: _task_queue.push(task), at the back
Enqueue(q, id) == Append(q, id)

\* a worker that takes the task pushed last
DequeueBack(q) == [task |-> q[Len(q)], rest |-> SubSeq(q, 1, Len(q) - 1)]

\* front() without pop(): the task stays in the queue
DequeueNoPop(q) == [task |-> Head(q), rest |-> q]

\* infinite_loop: task = std::move(_task_queue.front()); _task_queue.pop();
Dequeue(q) == [task |-> Head(q), rest |-> Tail(q)]

\* a dequeue that leaves the flag alone
BusyOnDequeueForgotten(b) == b

\* infinite_loop: _busy[thread_id] = true; in the critical section of the pop
BusyOnDequeue(b) == TRUE

\* a barrier that looks at the queue alone
WaitPredQueueOnly == _task_queue = <<>>

\* a barrier satisfied as soon as one worker is idle (any_of for none_of)
WaitPredAnyIdle ==
  /\ _task_queue = <<>>
  /\ \E w \in Started : ~_busy[w]

\* wait(): the predicate handed to cv.wait
WaitPred ==
  /\ _task_queue = <<>>
  /\ \A w \in Started : ~_busy[w]

\* a wake-up taken at its word: cv.wait(lock) without the predicate loop
WakeNoRecheck == TRUE

\* cv.wait(lock, pred): while (!pred()) wait(lock); the test after a wake-up
WakeRecheck == WaitPred

\* x.detach() for x.join(): the destructor does not wait for the thread
JoinDetached(w) == TRUE

\* x.join() returns once thread x has left infinite_loop
JoinReady(w) == wpc[w] = "terminated"

\* a loop that pushes no task for a block that would be empty
NumBlocksClamped(start, end, n) == IF end - start < n THEN end - start ELSE n

\* parallel_for: for (size_t t = 0; t < get_num_threads(); t++)
NumBlocks(start, end, n) == n

\* a completion that notifies nobody
NotifyNone(sleepers) == notified

\* cv.notify_all(): every thread blocked in cv.wait is woken
NotifyAll(sleepers) == notified \cup sleepers

\* a dispatch loop that never looks at the flag again
LoopTestAlways == TRUE

\* infinite_loop: while (_running)
LoopTest == _running

\* the block body f(bi, ei): for (i = bi; i < ei; i++) foo[i]++
BlockBody(a, bi, ei) ==
  [i \in DOMAIN a |-> IF bi <= i /\ i < ei THEN a[i] + 1 ELSE a[i]]

\* the log entry of a task as push receives it: by, the caller; blk, its block
\* index in parallel_for (-1: a plain task); worker, the thread that took it
\* from the queue; late, it was taken after _running was cleared; inflight,
\* it was in a worker's hands when _running was cleared; runs, the number of
\* times task() has returned for it; body, what the task does: "run" returns
\* (a block increments its range first), "throws" raises an exception,
\* "waits" calls wait() and "pfs" calls parallel_for on the pool that runs it
NewTask(c, blk, bi, ei) ==
  [by |-> c, blk |-> blk, bi |-> bi, ei |-> ei, body |-> "run",
   worker |-> -1, late |-> FALSE, inflight |-> FALSE, runs |-> 0]

\* the pool object exists until ~ThreadPool has returned
Alive == cpc["main"] # "gone"

----------------------------------------------------------------------------
Init ==
  /\ _running = TRUE
  /\ _n_threads \in 0 .. MaxThreads
  /\ _busy = [w \in Threads |-> FALSE]
  /\ _task_queue = <<>>
  /\ notified = {}
  /\ wpc = [w \in Threads |-> IF w < _n_threads THEN "loop" ELSE "none"]
  /\ task = [w \in Threads |-> 0]
  /\ cpc = [c \in AllCallers |-> "idle"]
  /\ call = [c \in AllCallers |-> NoCall]
  /\ joined = 0
  /\ tasks = <<>>
  /\ foo = ZeroArray

----------------------------------------------------------------------------
(* Caller threads *)

\* push(task): one critical section appending to the queue
Push(c) ==
  /\ Alive
  /\ cpc[c] = "idle"
  /\ Len(tasks) < MaxTasks
  /\ _task_queue' = Enqueue(_task_queue, Len(tasks) + 1)
  /\ tasks' = Append(tasks, NewTask(c, -1, 0, 0))
  /\ UNCHANGED <<_running, _n_threads, _busy, notified, wpc, task, cpc, call,
                 joined, foo>>

\* wait(): lock, cv.wait tests the predicate and returns, or unlocks and
\* blocks in one step
WaitCall(c) ==
  /\ Alive
  /\ cpc[c] = "idle"
  /\ IF WaitPred
       THEN /\ cpc' = [cpc EXCEPT ![c] = "done"]
            /\ call' = [call EXCEPT ![c] = [NoCall EXCEPT !.op = "wait"]]
       ELSE /\ cpc' = [cpc EXCEPT ![c] = "wait_sleep"]
            /\ call' = [call EXCEPT ![c] = [NoCall EXCEPT !.op = "wait", !.sleeps = 1]]
  /\ UNCHANGED <<_running, _n_threads, _busy, _task_queue, notified, wpc,
                 task, joined, tasks, foo>>

\* cv.wait: woken by notify_all, relock, test the predicate again
WaitWake(c) ==
  /\ Alive
  /\ cpc[c] = "wait_sleep"
  /\ c \in notified
  /\ notified' = notified \ {c}
  /\ IF WakeRecheck
       THEN cpc' = [cpc EXCEPT ![c] = "done"] /\ call' = call
       ELSE cpc' = cpc /\ call' = [call EXCEPT ![c].sleeps = 2]
  /\ UNCHANGED <<_running, _n_threads, _busy, _task_queue, wpc, task,
                 joined, tasks, foo>>

\* cv.wait: a spurious wake-up, relock, test the predicate again
WaitSpurious(c) ==
  /\ Alive
  /\ cpc[c] = "wait_sleep"
  /\ c \notin notified
  /\ cpc' = [cpc EXCEPT ![c] = IF WakeRecheck THEN "done" ELSE "wait_sleep"]
  /\ UNCHANGED <<_running, _n_threads, _busy, _task_queue, notified, wpc,
                 task, call, joined, tasks, foo>>

\* the caller leaves the state in which its call has just returned
Return(c) ==
  /\ Alive
  /\ cpc[c] = "done"
  /\ cpc' = [cpc EXCEPT ![c] = "idle"]
  /\ call' = [call EXCEPT ![c] = NoCall]
  /\ UNCHANGED <<_running, _n_threads, _busy, _task_queue, notified, wpc,
                 task, joined, tasks, foo>>

\* parallel_for(s, e, f) over the caller's zero-initialised array:
\* if (start >= end) return;
ParallelForCall(c, s, e) ==
  /\ Alive
  /\ cpc[c] = "idle"
  /\ s < e => Len(tasks) + _n_threads <= MaxTasks
  /\ cpc' = [cpc EXCEPT ![c] = IF EmptyRange(s, e) THEN "done" ELSE "pf_push"]
  /\ call' = [call EXCEPT ![c] = [NoCall EXCEPT !.op = "pf", !.start = s, !.end = e]]
  /\ foo' = ZeroArray
  /\ UNCHANGED <<_running, _n_threads, _busy, _task_queue, notified, wpc,
                 task, joined, tasks>>

\* parallel_for: one turn of the for loop, push(std::bind(f, block_start, block_end))
PfPush(c) ==
  /\ Alive
  /\ cpc[c] = "pf_push"
  /\ call[c].t < NumBlocks(call[c].start, call[c].end, _n_threads)
  /\ LET t == call[c].t
         id == Len(tasks) + 1
         bi == BlockStart(t, call[c].start, call[c].end, _n_threads)
         ei == BlockEnd(t, call[c].start, call[c].end, _n_threads)
     IN /\ _task_queue' = Enqueue(_task_queue, id)
        /\ tasks' = Append(tasks, NewTask(c, t, bi, ei))
        /\ call' = [call EXCEPT ![c].t = t + 1, ![c].ids = Append(@, id)]
  /\ UNCHANGED <<_running, _n_threads, _busy, notified, wpc, task, cpc,
                 joined, foo>>

\* parallel_for: the for loop ends and wait() is entered
PfWait(c) ==
  /\ Alive
  /\ cpc[c] = "pf_push"
  /\ call[c].t >= NumBlocks(call[c].start, call[c].end, _n_threads)
  /\ IF WaitPred
       THEN cpc' = [cpc EXCEPT ![c] = "done"] /\ call' = call
       ELSE /\ cpc' = [cpc EXCEPT ![c] = "wait_sleep"]
            /\ call' = [call EXCEPT ![c].sleeps = 1]
  /\ UNCHANGED <<_running, _n_threads, _busy, _task_queue, notified, wpc,
                 task, joined, tasks, foo>>

\* ~ThreadPool: _running = false
DtorStart ==
  /\ cpc["main"] = "idle"
  /\ _running' = FALSE
  /\ cpc' = [cpc EXCEPT !["main"] = "dtor_join"]
  /\ joined' = 0
  /\ tasks' = [id \in DOMAIN tasks |->
                [tasks[id] EXCEPT !.inflight = (tasks[id].worker >= 0 /\ tasks[id].runs = 0)]]
  /\ UNCHANGED <<_n_threads, _busy, _task_queue, notified, wpc, task, call,
                 foo>>

\* ~ThreadPool: x.join() returns for the next worker, in index order
DtorJoin ==
  /\ cpc["main"] = "dtor_join"
  /\ joined < _n_threads
  /\ JoinReady(joined)
  /\ joined' = joined + 1
  /\ UNCHANGED <<_running, _n_threads, _busy, _task_queue, notified, wpc,
                 task, cpc, call, tasks, foo>>

\* ~ThreadPool returns
DtorReturn ==
  /\ cpc["main"] = "dtor_join"
  /\ joined >= _n_threads
  /\ cpc' = [cpc EXCEPT !["main"] = "gone"]
  /\ UNCHANGED <<_running, _n_threads, _busy, _task_queue, notified, wpc,
                 task, call, joined, tasks, foo>>

----------------------------------------------------------------------------
(* Worker threads: infinite_loop(thread_id) *)

\* while (_running)
WorkerTest(w) ==
  /\ wpc[w] = "loop"
  /\ wpc' = [wpc EXCEPT ![w] = IF LoopTest THEN "get" ELSE "terminated"]
  /\ UNCHANGED <<_running, _n_threads, _busy, _task_queue, notified, task,
                 cpc, call, joined, tasks, foo>>

\* the first critical section: continue on an empty queue, else take the front
WorkerGet(w) ==
  /\ wpc[w] = "get"
  /\ IF Len(_task_queue) = 0
       THEN /\ _busy' = [_busy EXCEPT ![w] = FALSE]
            /\ wpc' = [wpc EXCEPT ![w] = "loop"]
            /\ UNCHANGED <<_task_queue, task, tasks>>
       ELSE /\ task' = [task EXCEPT ![w] = Dequeue(_task_queue).task]
            /\ _task_queue' = Dequeue(_task_queue).rest
            /\ _busy' = [_busy EXCEPT ![w] = BusyOnDequeue(@)]
            /\ tasks' = [tasks EXCEPT ![Dequeue(_task_queue).task].worker = w,
                                      ![Dequeue(_task_queue).task].late = ~_running]
            /\ wpc' = [wpc EXCEPT ![w] = "exec"]
  /\ UNCHANGED <<_running, _n_threads, notified, cpc, call, joined, foo>>

\* task(); returns: a body that calls back into the pool returns once that
\* call has returned
WorkerExec(w) ==
  /\ wpc[w] = "exec"
  /\ LET id == task[w]
         nested == tasks[id].body \in {"waits", "pfs"}
     IN /\ tasks[id].body # "throws"
        /\ nested => cpc[Self(w)] = "done"
        /\ tasks' = [tasks EXCEPT ![id].runs = @ + 1]
        /\ foo' = IF tasks[id].blk >= 0
                    THEN BlockBody(foo, tasks[id].bi, tasks[id].ei)
                    ELSE foo
        /\ cpc' = IF nested THEN [cpc EXCEPT ![Self(w)] = "idle"] ELSE cpc
        /\ call' = IF nested THEN [call EXCEPT ![Self(w)] = NoCall] ELSE call
  /\ wpc' = [wpc EXCEPT ![w] = "notify"]
  /\ UNCHANGED <<_running, _n_threads, _busy, _task_queue, notified, task,
                 joined>>

\* the second critical section: _busy[thread_id] = false; cv.notify_all();
WorkerNotify(w) ==
  /\ wpc[w] = "notify"
  /\ _busy' = [_busy EXCEPT ![w] = FALSE]
  /\ notified' = NotifyAll({c \in AllCallers : cpc[c] = "wait_sleep"})
  /\ task' = [task EXCEPT ![w] = 0]
  /\ wpc' = [wpc EXCEPT ![w] = "loop"]
  /\ UNCHANGED <<_running, _n_threads, _task_queue, cpc, call, joined, tasks,
                 foo>>

Worker(w) == WorkerTest(w) \/ WorkerGet(w) \/ WorkerExec(w) \/ WorkerNotify(w)

\* the steps by which a caller goes on with a call it has begun
CallerProgress(c) ==
  \/ WaitWake(c) \/ PfPush(c) \/ PfWait(c)

Next ==
  \/ \E c \in Callers : Push(c)
  \/ \E c \in Callers : WaitCall(c)
  \/ \E c \in Callers : WaitWake(c)
  \/ \E c \in Callers : WaitSpurious(c)
  \/ \E c \in Callers : Return(c)
  \/ \E s, e \in 0 .. MaxIdx : ParallelForCall("main", s, e)
  \/ \E c \in Callers : PfPush(c)
  \/ \E c \in Callers : PfWait(c)
  \/ DtorStart
  \/ DtorJoin
  \/ DtorReturn
  \/ \E w \in Threads : WorkerTest(w)
  \/ \E w \in Threads : WorkerGet(w)
  \/ \E w \in Threads : WorkerExec(w)
  \/ \E w \in Threads : WorkerNotify(w)

Spec == Init /\ [][Next]_vars

\* Threads are scheduled fairly and a call that has begun goes on; nothing
\* obliges a caller to begin a call, and a spurious wake-up need not happen.
Fairness ==
  /\ \A w \in Threads : WF_vars(Worker(w))
  /\ \A c \in Callers : WF_vars(CallerProgress(c))
  /\ WF_vars(DtorJoin \/ DtorReturn)

FairSpec == Spec /\ Fairness

----------------------------------------------------------------------------
\* Task bodies that do more than return.

\* push(task) of a task whose body is b
PushBody(c, b) ==
  /\ Alive
  /\ cpc[c] = "idle"
  /\ Len(tasks) < MaxTasks
  /\ _task_queue' = Enqueue(_task_queue, Len(tasks) + 1)
  /\ tasks' = Append(tasks, [NewTask(c, -1, 0, 0) EXCEPT !.body = b])
  /\ UNCHANGED <<_running, _n_threads, _busy, notified, wpc, task, cpc, call,
                 joined, foo>>

\* task(); throws: nothing in infinite_loop catches, the exception leaves the
\* thread's function and std::terminate ends the process with all its threads
WorkerThrow(w) ==
  /\ wpc[w] = "exec"
  /\ tasks[task[w]].body = "throws"
  /\ wpc' = [v \in Threads |-> "terminate"]
  /\ cpc' = [c \in AllCallers |-> "terminate"]
  /\ UNCHANGED <<_running, _n_threads, _busy, _task_queue, notified, task,
                 call, joined, tasks, foo>>

ThrowNext ==
  \/ Next
  \/ \E c \in Callers : PushBody(c, "throws")
  \/ \E w \in Threads : WorkerThrow(w)

ThrowSpec == Init /\ [][ThrowNext]_vars

\* task(); the body calls wait() on the pool whose worker runs it
NestedWait(w) ==
  /\ wpc[w] = "exec"
  /\ tasks[task[w]].body = "waits"
  /\ WaitCall(Self(w))

\* task(); the body calls parallel_for(s, e, f) on the pool whose worker runs it
NestedParallelFor(w, s, e) ==
  /\ wpc[w] = "exec"
  /\ tasks[task[w]].body = "pfs"
  /\ ParallelForCall(Self(w), s, e)

\* the rest of a call made from inside a task: its pushes, its wait, its
\* wake-ups
NestedProgress(w) ==
  \/ PfPush(Self(w))
  \/ PfWait(Self(w))
  \/ WaitWake(Self(w))
  \/ WaitSpurious(Self(w))

NestedNext ==
  \/ Next
  \/ \E c \in Callers, b \in {"waits", "pfs"} : PushBody(c, b)
  \/ \E w \in Threads : NestedWait(w)
  \/ \E w \in Threads, s, e \in 0 .. MaxIdx : NestedParallelFor(w, s, e)
  \/ \E w \in Threads : NestedProgress(w)

NestedSpec == Init /\ [][NestedNext]_vars

----------------------------------------------------------------------------
\* The older pool of threadpool.hpp: no busy flags, no condition variable, no
\* wait(); parallel_for spins on the size of the queue.  It uses _running,
\* _n_threads, _task_queue and the histories; _busy and notified stay as
\* constructed.

\* ThreadPool(n_threads) of threadpool.hpp
TpInit == Init

\* push of threadpool.hpp: unique_lock; _task_queue.push(task);
TpPush(c) == Push(c)

\* parallel_for of threadpool.hpp: if (start >= end) return;
TpParallelForCall(c, s, e) == ParallelForCall(c, s, e)

\* parallel_for of threadpool.hpp: one iteration of the for loop
TpPfPush(c) == PfPush(c)

\* what the unsynchronised read _task_queue.size() of the spin loop can yield:
\* the loop has no side effect and races with push and pop, so a build either
\* polls the size or drops the loop
QueueSizeRead == {Len(_task_queue), 0}

\* while (_task_queue.size() > 0) ;   left when a read is not positive
TpBusyWait(c) ==
  /\ cpc[c] = "pf_push"
  /\ call[c].t >= NumBlocks(call[c].start, call[c].end, _n_threads)
  /\ \E size \in QueueSizeRead : ~(size > 0)
  /\ cpc' = [cpc EXCEPT ![c] = "done"]
  /\ UNCHANGED <<_running, _n_threads, _busy, _task_queue, notified, wpc,
                 task, call, joined, tasks, foo>>

\* ~ThreadPool of threadpool.hpp: _running = false;
TpDtorStart == DtorStart

\* ~ThreadPool of threadpool.hpp: x.join() on the next thread
TpDtorJoin == DtorJoin

\* ~ThreadPool of threadpool.hpp: for_each is over
TpDtorReturn == DtorReturn

\* infinite_loop of threadpool.hpp: while (_running)
TpWorkerTest(w) == WorkerTest(w)

\* infinite_loop of threadpool.hpp: the critical section
TpWorkerGet(w) ==
  /\ wpc[w] = "get"
  /\ IF Len(_task_queue) = 0
       THEN /\ wpc' = [wpc EXCEPT ![w] = "loop"]
            /\ UNCHANGED <<_task_queue, task, tasks>>
       ELSE /\ task' = [task EXCEPT ![w] = Dequeue(_task_queue).task]
            /\ _task_queue' = Dequeue(_task_queue).rest
            /\ tasks' = [tasks EXCEPT ![Dequeue(_task_queue).task].worker = w,
                                      ![Dequeue(_task_queue).task].late = ~_running]
            /\ wpc' = [wpc EXCEPT ![w] = "exec"]
  /\ UNCHANGED <<_running, _n_threads, _busy, notified, cpc, call, joined, foo>>

\* infinite_loop of threadpool.hpp: task(); then back to the loop test
TpWorkerExec(w) ==
  /\ wpc[w] = "exec"
  /\ LET id == task[w]
     IN /\ tasks' = [tasks EXCEPT ![id].runs = @ + 1]
        /\ foo' = IF tasks[id].blk >= 0
                    THEN BlockBody(foo, tasks[id].bi, tasks[id].ei)
                    ELSE foo
  /\ task' = [task EXCEPT ![w] = 0]
  /\ wpc' = [wpc EXCEPT ![w] = "loop"]
  /\ UNCHANGED <<_running, _n_threads, _busy, _task_queue, notified, cpc,
                 call, joined>>

TpNext ==
  \/ \E c \in Callers : TpPush(c)
  \/ \E s, e \in 0 .. MaxIdx : TpParallelForCall("main", s, e)
  \/ \E c \in Callers : TpPfPush(c)
  \/ \E c \in Callers : TpBusyWait(c)
  \/ \E c \in Callers : Return(c)
  \/ TpDtorStart
  \/ TpDtorJoin
  \/ TpDtorReturn
  \/ \E w \in Threads : TpWorkerTest(w)
  \/ \E w \in Threads : TpWorkerGet(w)
  \/ \E w \in Threads : TpWorkerExec(w)

TpSpec == TpInit /\ [][TpNext]_vars

----------------------------------------------------------------------------
(* Vocabulary of the properties *)

Queued(id) == \E k \in 1 .. Len(_task_queue) : _task_queue[k] = id

\* dequeued by a worker that has not yet come back from task()
InHand(id) == \E w \in Threads : wpc[w] = "exec" /\ task[w] = id

Finished(id) == tasks[id].runs = 1 /\ ~Queued(id) /\ ~InHand(id)

QueueEmptyNoneBusy ==
  /\ Len(_task_queue) = 0
  /\ \A w \in Threads : w < _n_threads => _busy[w] = FALSE

\* caller c comes back from wait(), called directly or by parallel_for
WaitReturns(c) ==
  /\ cpc[c] # "done"
  /\ cpc'[c] = "done"
  /\ (call'[c].op = "wait" \/ call'[c].start < call'[c].end)

----------------------------------------------------------------------------
\* C1: with W >= 1 workers, at the moment a wait() returns every task whose
\* push has returned has been executed exactly once and has finished: none is
\* queued, none is in a worker's hands.
C1_WaitBarrier ==
  [][\A c \in Callers :
       (WaitReturns(c) /\ call'[c].op = "wait" /\ _n_threads >= 1)
         => \A id \in 1 .. Len(tasks') : Finished(id)']_vars

\* a wait() that blocked has returned after two tasks, pushed by two callers,
\* were run by two workers
C1_Witness ==
  \E c \in Callers :
    /\ cpc[c] = "done" /\ call[c].op = "wait" /\ call[c].sleeps >= 1
    /\ Len(tasks) = 2 /\ tasks[1].by # tasks[2].by
    /\ tasks[1].worker # tasks[2].worker
    /\ \A id \in 1 .. 2 : Finished(id)

\* C2: wait() returns only from a critical section in which the queue is empty
\* and every busy flag is false; a wake-up that finds this false does not
\* make it return.
C2_WaitReturnsOnPredicate ==
  [][\A c \in Callers :
       /\ WaitReturns(c) => (QueueEmptyNoneBusy /\ QueueEmptyNoneBusy')
       /\ (cpc[c] = "wait_sleep" /\ ~QueueEmptyNoneBusy) => cpc'[c] = "wait_sleep"]_vars

\* a wait() has returned after a notification found the predicate false
C2_Witness ==
  \E c \in Callers : cpc[c] = "done" /\ call[c].sleeps = 2

\* C3: on a running pool with W >= 1, a wait() that blocks returns: the step
\* that makes the predicate true notifies every blocked waiter, and a
\* notified waiter is scheduled.
C3_WaitReturnsEventually ==
  /\ \A c \in Callers :
       (cpc[c] = "wait_sleep" /\ _n_threads >= 1) ~> (cpc[c] = "done" \/ ~_running)
  /\ [][\A c \in Callers :
          (~QueueEmptyNoneBusy /\ QueueEmptyNoneBusy' /\ cpc[c] = "wait_sleep")
            => c \in notified']_vars

\* a wait() called while a task was pending has blocked and returned on a
\* pool that was never shut down
C3_Witness ==
  \E c \in Callers :
    /\ cpc[c] = "done" /\ call[c].op = "wait" /\ call[c].sleeps >= 1
    /\ _running /\ Len(tasks) >= 1

\* C4: when parallel_for returns from a non-empty range (W >= 1), it has
\* pushed one task per block and each of them has run exactly once and is
\* finished.
C4_ParallelForBarrier ==
  \A c \in Callers :
    (cpc[c] = "done" /\ call[c].op = "pf" /\ call[c].start < call[c].end
       /\ _n_threads >= 1)
      => /\ Len(call[c].ids) = _n_threads
         /\ \A k \in 1 .. Len(call[c].ids) :
              /\ tasks[call[c].ids[k]].blk = k - 1
              /\ Finished(call[c].ids[k])

\* parallel_for has blocked and returned after two workers ran its two blocks
C4_Witness ==
  \E c \in Callers :
    /\ cpc[c] = "done" /\ call[c].op = "pf" /\ call[c].sleeps >= 1
    /\ Len(call[c].ids) = 2
    /\ tasks[call[c].ids[1]].worker # tasks[call[c].ids[2]].worker
    /\ \A k \in 1 .. 2 : Finished(call[c].ids[k])

\* C5: the W blocks parallel_for hands to f are contiguous in index order and
\* cover exactly [start, end), also when start # 0.
C5_BlocksCoverRange ==
  \A c \in Callers :
    (call[c].op = "pf" /\ cpc[c] \in {"wait_sleep", "done"}
       /\ call[c].start < call[c].end /\ _n_threads >= 1)
      => LET ids == call[c].ids
             n == Len(ids)
         IN /\ n = _n_threads
            /\ tasks[ids[1]].bi = call[c].start
            /\ tasks[ids[n]].ei = call[c].end
            /\ \A k \in 1 .. n : tasks[ids[k]].bi <= tasks[ids[k]].ei
            /\ \A k \in 1 .. (n - 1) : tasks[ids[k]].ei = tasks[ids[k + 1]].bi

\* C6 as stated: after parallel_for(0, K, f) every element below K is 1, for
\* every worker count the constructor accepts.
C6_AllOnesAnyCount ==
  \A c \in Callers :
    (cpc[c] = "done" /\ call[c].op = "pf" /\ call[c].start = 0)
      => \A i \in 0 .. (call[c].end - 1) : foo[i] = 1

\* C6, amended: after parallel_for(0, K, f) on a pool of W >= 1 workers every
\* element below K is 1.
C6_AllOnes ==
  \A c \in Callers :
    (cpc[c] = "done" /\ call[c].op = "pf" /\ call[c].start = 0
       /\ _n_threads >= 1)
      => \A i \in 0 .. (call[c].end - 1) : foo[i] = 1

\* parallel_for(0, MaxIdx, f) has returned on a pool of two workers, each of
\* which ran one block
C6_Witness ==
  \E c \in Callers :
    /\ cpc[c] = "done" /\ call[c].op = "pf"
    /\ call[c].start = 0 /\ call[c].end = MaxIdx
    /\ _n_threads = 2
    /\ tasks[call[c].ids[1]].worker # tasks[call[c].ids[2]].worker
    /\ \A i \in 0 .. (MaxIdx - 1) : foo[i] = 1

\* C7: parallel_for on a range with end <= start returns in its first step:
\* it pushes nothing, does not enter wait() and leaves the queue, the busy
\* flags and the waiters alone.
C7_EmptyRangeNoOp ==
  [][\A c \in Callers :
       (cpc[c] = "idle" /\ cpc'[c] # "idle" /\ call'[c].op = "pf"
          /\ call'[c].end <= call'[c].start)
         => /\ cpc'[c] = "done"
            /\ call'[c].ids = <<>> /\ call'[c].sleeps = 0
            /\ UNCHANGED <<_task_queue, _busy, tasks, notified>>]_vars

\* parallel_for on a range with end < start has returned while a task was
\* queued and a worker was busy
C7_Witness ==
  \E c \in Callers :
    /\ cpc[c] = "done" /\ call[c].op = "pf" /\ call[c].end < call[c].start
    /\ Len(_task_queue) > 0
    /\ \E w \in Threads : _busy[w]

\* C8: once the loop of parallel_for is over on a non-empty range, exactly W
\* tasks have been pushed, block t being the t-th of them, empty blocks
\* included; when the call has returned each of them has run.
C8_OneTaskPerBlock ==
  \A c \in Callers :
    (call[c].op = "pf" /\ cpc[c] \in {"wait_sleep", "done"}
       /\ call[c].start < call[c].end)
      => LET ids == call[c].ids
         IN /\ Len(ids) = _n_threads
            /\ \A k \in 1 .. Len(ids) :
                 /\ tasks[ids[k]].blk = k - 1
                 /\ tasks[ids[k]].by = c
                 /\ k > 1 => ids[k - 1] < ids[k]
                 /\ cpc[c] = "done" => tasks[ids[k]].runs = 1

\* parallel_for has returned from a range shorter than the worker count and
\* the task of an empty block has run
C8_Witness ==
  \E c \in Callers :
    /\ cpc[c] = "done" /\ call[c].op = "pf"
    /\ call[c].start < call[c].end
    /\ call[c].end - call[c].start < _n_threads
    /\ \E k \in 1 .. Len(call[c].ids) :
         /\ tasks[call[c].ids[k]].bi = tasks[call[c].ids[k]].ei
         /\ tasks[call[c].ids[k]].runs = 1

\* the tasks worker w has taken from the queue since _running was cleared
LateTasks(w) ==
  {id \in 1 .. Len(tasks) : tasks[id].worker = w /\ tasks[id].late}

\* the tasks worker w had in hand when _running was cleared
InflightTasks(w) ==
  {id \in 1 .. Len(tasks) : tasks[id].worker = w /\ tasks[id].inflight}

\* C9 as stated: once _running is cleared a worker at most finishes the task
\* it holds, so it takes no task from the queue any more.
C9_NoDequeueAfterClear ==
  \A w \in Threads : LateTasks(w) = {}

\* C9, amended: once _running is cleared every worker finishes at most one
\* more task (the one it holds or, if it holds none, one it takes in the loop
\* turn it had begun), and the destructor's joins all complete.
C9_ShutdownTerminates ==
  /\ (~_running) ~> (cpc["main"] = "gone")
  /\ [](\A w \in Threads : Cardinality(LateTasks(w) \cup InflightTasks(w)) <= 1)

\* the destructor has returned on a pool of two workers with a task still
\* in the queue
C9_Witness ==
  /\ cpc["main"] = "gone"
  /\ _n_threads = 2
  /\ Len(_task_queue) > 0

\* C10: a worker that has terminated has run the task it had in hand when
\* _running was cleared and has cleared its busy flag; the destructor has
\* returned only if every worker has terminated.
C10_InflightCompletes ==
  /\ \A w \in Threads :
       wpc[w] = "terminated"
         => /\ _busy[w] = FALSE
            /\ \A id \in InflightTasks(w) : Finished(id)
  /\ cpc["main"] = "gone"
       => \A w \in Threads : w < _n_threads => wpc[w] = "terminated"

\* the destructor has returned and a task that was in a worker's hands when
\* _running was cleared has run
C10_Witness ==
  /\ cpc["main"] = "gone"
  /\ \E id \in 1 .. Len(tasks) : tasks[id].inflight /\ tasks[id].runs = 1


\* C11: every task pushed before the pool goes out of scope has been executed
\* when the destructor has returned.
C11_ShutdownDrains ==
  cpc["main"] = "gone" => \A id \in 1 .. Len(tasks) : tasks[id].runs >= 1

\* C12: a push that starts after the destructor has cleared _running is
\* rejected: from then on no step adds a task to the queue.
C12_PushRejectedAfterShutdown ==
  [][~_running => \A id \in 1 .. Len(tasks') : Queued(id)' => Queued(id)]_vars

\* C13: a task body that fails does not take its worker out of the loop: when
\* the failing body ends, the worker goes on to its second critical section,
\* where it clears its busy flag and notifies.
C13_FailureContained ==
  [][\A w \in Threads :
       (wpc[w] = "exec" /\ tasks[task[w]].body = "throws" /\ wpc'[w] # "exec")
         => wpc'[w] = "notify"]_vars

\* C14: tasks leave the queue in the order of their pushes (task ids count the
\* critical sections of push): whenever a task has been dequeued, every task
\* pushed before it has been dequeued too, and the queue holds its tasks in
\* push order.
C14_Fifo ==
  /\ \A a, b \in 1 .. Len(tasks) :
       (a < b /\ tasks[b].worker >= 0) => tasks[a].worker >= 0
  /\ \A j, k \in 1 .. Len(_task_queue) :
       j < k => _task_queue[j] < _task_queue[k]

\* two tasks pushed by two callers were queued together and have both been
\* dequeued, by different workers, the first still running
C14_Witness ==
  /\ Len(tasks) = 2 /\ tasks[1].by # tasks[2].by
  /\ tasks[1].worker >= 0 /\ tasks[2].worker >= 0
  /\ tasks[1].worker # tasks[2].worker
  /\ tasks[1].late = FALSE /\ tasks[2].late = FALSE
  /\ InHand(1) /\ InHand(2)

\* number of places of the queue that hold task id
InQueue(id) == Cardinality({k \in 1 .. Len(_task_queue) : _task_queue[k] = id})

\* number of workers that hold task id, dequeued and not yet run to its end
InHands(id) == Cardinality({w \in Threads : wpc[w] = "exec" /\ task[w] = id})

\* C15: no task is handed to more than one worker: every pushed task is, at
\* every instant, in exactly one of three places: once in the queue, in the
\* hands of exactly one worker, or finished (run once).
C15_ExactlyOnePlace ==
  \A id \in 1 .. Len(tasks) :
    /\ tasks[id].runs <= 1
    /\ InQueue(id) + InHands(id) + tasks[id].runs = 1

\* of two tasks, one has finished on one worker while the other is in the
\* hands of the other worker, both workers having met at the queue
C15_Witness ==
  /\ Len(tasks) = 2 /\ _running
  /\ tasks[1].runs = 1 /\ InHands(2) = 1
  /\ tasks[1].worker # tasks[2].worker
  /\ \E w \in Threads : wpc[w] = "notify" /\ task[w] = 1

\* worker w has dequeued a task and has not yet been through the critical
\* section that records its completion
HoldsTask(w) == wpc[w] \in {"exec", "notify"}

\* C16: in every state (in each the mutex is free) a worker's busy flag is true
\* exactly when the worker holds a dequeued task whose completion it has not
\* yet recorded; so the queue is never empty with all flags false while a
\* dequeued task is unfinished.
C16_BusyIffHolding ==
  /\ \A w \in Threads : _busy[w] <=> HoldsTask(w)
  /\ QueueEmptyNoneBusy =>
       \A id \in 1 .. Len(tasks) : tasks[id].worker >= 0 => tasks[id].runs = 1

\* the queue is empty, one worker holds an unfinished task with its flag true
\* and the other, which has run a task, is idle with its flag false
C16_Witness ==
  /\ Len(_task_queue) = 0 /\ Len(tasks) = 2
  /\ \E w, v \in Threads :
       /\ wpc[w] = "exec" /\ _busy[w] /\ task[w] = 2
       /\ tasks[1].worker = v /\ v # w /\ tasks[1].runs = 1
       /\ wpc[v] = "get" /\ ~_busy[v]

\* C17: a worker that finds the queue empty suspends until a push or a
\* completion: on a running pool to which nothing is ever pushed, each worker
\* eventually stops coming back to the critical section that reads the queue.
C17_IdleWorkerSuspends ==
  \A w \in Threads :
    [](_running /\ Len(tasks) = 0) => <>[](wpc[w] # "get")

\* C18 as stated: block i of a parallel_for is executed by worker i, so every
\* worker executes exactly one block of the call.
C18_BlockIByWorkerI ==
  \A id \in 1 .. Len(tasks) :
    (tasks[id].blk >= 0 /\ tasks[id].worker >= 0)
      => tasks[id].worker = tasks[id].blk

\* C18: the blocks of a parallel_for are pushed and dequeued in index order
\* and each is executed once by one worker of the pool, whichever asks first:
\* a block is not bound to the worker of its index.
C18_BlocksInOrderAnyWorker ==
  \A c \in Callers :
    call[c].op = "pf" =>
      LET ids == call[c].ids
      IN /\ \A k \in 1 .. Len(ids) :
              /\ tasks[ids[k]].blk = k - 1
              /\ tasks[ids[k]].worker >= 0 => tasks[ids[k]].worker \in Started
              /\ tasks[ids[k]].runs <= 1
              /\ (k > 1 /\ tasks[ids[k]].worker >= 0)
                   => tasks[ids[k - 1]].worker >= 0
         /\ (cpc[c] = "done" /\ call[c].start < call[c].end /\ _n_threads >= 1)
              => \A k \in 1 .. Len(ids) : tasks[ids[k]].runs = 1

\* a parallel_for on a pool of two workers has returned and one worker has
\* executed both blocks
C18_Witness ==
  \E c \in Callers :
    /\ cpc[c] = "done" /\ call[c].op = "pf" /\ Len(call[c].ids) = 2
    /\ _n_threads = 2
    /\ tasks[call[c].ids[1]].worker = tasks[call[c].ids[2]].worker
    /\ \A k \in 1 .. 2 : Finished(call[c].ids[k])

\* C19: in the pool of threadpool.hpp, when parallel_for has returned from a
\* non-empty range, every one of its block tasks has finished executing.
C19_TpParallelForBarrier ==
  \A c \in Callers :
    (cpc[c] = "done" /\ call[c].op = "pf" /\ call[c].start < call[c].end)
      => \A k \in 1 .. Len(call[c].ids) : Finished(call[c].ids[k])

\* C20: a wait(), or a parallel_for on a non-empty range, called from inside a
\* task by the worker that runs it never returns: the only call of a worker
\* that has returned is a parallel_for on an empty range, a task whose body
\* waits never ends, and while the worker is in its call its own busy flag
\* is true, which keeps the completion predicate false.
C20_NestedWaitNeverReturns ==
  /\ \A w \in Threads :
       /\ cpc[Self(w)] = "done"
            => (call[Self(w)].op = "pf" /\ call[Self(w)].start >= call[Self(w)].end)
       /\ cpc[Self(w)] \in {"wait_sleep", "pf_push"}
            => (wpc[w] = "exec" /\ _busy[w] /\ ~WaitPred)
  /\ \A id \in 1 .. Len(tasks) : tasks[id].body = "waits" => tasks[id].runs = 0

\* a worker is blocked in the wait() of its task: the other worker finished a
\* task and notified, the woken worker found the queue empty and every flag
\* but its own false, and blocked again
C20_Witness ==
  \E w \in Threads :
    /\ cpc[Self(w)] = "wait_sleep" /\ call[Self(w)].op = "wait"
    /\ call[Self(w)].sleeps = 2
    /\ Len(_task_queue) = 0
    /\ \A v \in Started : v # w => ~_busy[v]
    /\ \E id \in 1 .. Len(tasks) : tasks[id].runs = 1 /\ tasks[id].worker # w

====
